---- MODULE Spec2Model ----
(***************************************************************************)
(* Brasschaat Villa Planner: the financial calculation engine              *)
(* (lib/finance, lib/sensitivity), the display's affordability banner and  *)
(* the input form's state, modelled as state machines over JavaScript      *)
(* numbers.                                                                *)
(*                                                                         *)
(* A JavaScript number is an IEEE-754 binary64 value.  The model keeps the *)
(* 53-bit significand and rounds every +, -, *, / to nearest, ties to even,*)
(* as the hardware does.  A finite number is the record                    *)
(*     [s, hi, lo, e]   with value  s * (hi * 2^26 + lo) * 2^e,            *)
(* s in {-1, 0, 1}, and for s # 0 the significand hi * 2^26 + lo lies in   *)
(* [2^52, 2^53).  Zero is the single record Zero (the sign of zero is not  *)
(* kept).  Infinities, NaN and subnormals are outside the modelled range:  *)
(* the inputs are bounded so that no operation reaches them.               *)
(***************************************************************************)
EXTENDS Integers, Sequences, FiniteSets, TLC

----------------------------------------------------------------------------
(* Wide naturals <<h, l>> = h * 2^26 + l with 0 <= l < 2^26, up to 57 bits. *)

L26 == 2^26

\* the number of bits of n, 0 <= n < 2^31
RECURSIVE BitLen32(_)
BitLen32(n) ==
  IF n = 0 THEN 0
  ELSE IF n >= 65536 THEN 16 + BitLen32(n \div 65536)
  ELSE IF n >= 256 THEN 8 + BitLen32(n \div 256)
  ELSE IF n >= 16 THEN 4 + BitLen32(n \div 16)
  ELSE 1 + BitLen32(n \div 2)

WBitLen(w) ==
  (IF w[1] > 0 THEN 26 ELSE 0) + BitLen32(IF w[1] > 0 THEN w[1] ELSE w[2])

WNorm(h, l) == <<h + (l \div L26), l % L26>>

WAdd(a, b) == WNorm(a[1] + b[1], a[2] + b[2])

\* a - b for a >= b
WSub(a, b) ==
  IF a[2] >= b[2] THEN <<a[1] - b[1], a[2] - b[2]>>
  ELSE <<a[1] - b[1] - 1, a[2] - b[2] + L26>>

WGe(a, b) == a[1] > b[1] \/ (a[1] = b[1] /\ a[2] >= b[2])

\* w * 2^k, for a result below 2^57
WShl(w, k) ==
  IF k = 0 THEN <<w[1], w[2]>>
  ELSE IF k < 26
    THEN <<w[1] * 2^k + (w[2] \div 2^(26 - k)), (w[2] % 2^(26 - k)) * 2^k>>
  ELSE <<(w[1] * L26 + w[2]) * 2^(k - 26), 0>>

\* <<h, l, sticky>>: floor(w / 2^k), and whether a nonzero bit was shifted out
WShr(w, k) ==
  IF k = 0 THEN <<w[1], w[2], FALSE>>
  ELSE IF k < 26
    THEN <<w[1] \div 2^k,
           (w[1] % 2^k) * 2^(26 - k) + (w[2] \div 2^k),
           w[2] % 2^k # 0>>
  ELSE IF k < 57
    THEN <<(w[1] \div 2^(k - 26)) \div L26, (w[1] \div 2^(k - 26)) % L26,
           (w[1] % 2^(k - 26) # 0) \/ w[2] # 0>>
  ELSE <<0, 0, w[1] # 0 \/ w[2] # 0>>

----------------------------------------------------------------------------
(* binary64 values *)

Zero == [s |-> 0, hi |-> 0, lo |-> 0, e |-> 0]

Mk(s, w, e) == [s |-> s, hi |-> w[1], lo |-> w[2], e |-> e]

Sig(a) == <<a.hi, a.lo>>

\* the literals 1, 12 and 100
One == Mk(1, <<L26, 0>>, -52)

Twelve == Mk(1, <<12 * 2^23, 0>>, -49)

Hundred == Mk(1, <<100 * 2^20, 0>>, -46)

\* a 53-bit r, or 2^53 after a carry out of the rounding
RoundCarry(s, r, e) ==
  IF r[1] = 2^27 THEN Mk(s, <<L26, 0>>, e + 1) ELSE Mk(s, r, e)

\* q rounded up when the bit below it (half) is set and either a lower bit
\* (low) is set or q is odd
RoundHalfEven(s, q, half, low, e) ==
  RoundCarry(s, IF half /\ (low \/ q[2] % 2 = 1) THEN WAdd(q, <<0, 1>>) ELSE q, e)

\* y: the 53 leading bits and the half bit, y[3]: a nonzero bit below them
RoundShifted(s, y, sticky, e) ==
  RoundHalfEven(s, <<y[1] \div 2, (y[1] % 2) * 2^25 + (y[2] \div 2)>>,
                y[2] % 2 = 1, y[3] \/ sticky, e)

\* w of n bits
RoundBits(s, w, e, sticky, n) ==
  IF n <= 53 THEN Mk(s, WShl(w, 53 - n), e - (53 - n))
  ELSE RoundShifted(s, WShr(w, n - 54), sticky, e + (n - 53))

\* The binary64 nearest to s * (w + f) * 2^e, where 0 <= f < 1 and f # 0
\* exactly when sticky: round to nearest, ties to even.
Round(s, w, e, sticky) ==
  IF w[1] = 0 /\ w[2] = 0 THEN Zero
  ELSE RoundBits(s, w, e, sticky, WBitLen(w))

\* an integer of the model as a number
FromInt(n) ==
  IF n = 0 THEN Zero
  ELSE Round(IF n < 0 THEN -1 ELSE 1,
             <<(IF n < 0 THEN -n ELSE n) \div L26, (IF n < 0 THEN -n ELSE n) % L26>>,
             0, FALSE)

FNeg(a) == [a EXCEPT !.s = -a.s]

\* |a| < |b| for nonzero a, b
MagLt(a, b) ==
  \/ a.e < b.e
  \/ a.e = b.e /\ (a.hi < b.hi \/ (a.hi = b.hi /\ a.lo < b.lo))

FLt(a, b) ==
  IF a.s # b.s THEN a.s < b.s
  ELSE IF a.s = 0 THEN FALSE
  ELSE IF a.s = 1 THEN MagLt(a, b)
  ELSE MagLt(b, a)

FLe(a, b) == a = b \/ FLt(a, b)

FMin(a, b) == IF FLt(b, a) THEN b ELSE a

FMax(a, b) == IF FLt(a, b) THEN b ELSE a

\* xa + xb or xa - xb (xa the larger) on aligned significands with three
\* guard bits; xb[3] says that bits of the smaller operand were shifted out
AddAligned(s, same, xa, xb, e) ==
  Round(s,
        IF same THEN WAdd(xa, <<xb[1], xb[2]>>)
        ELSE WSub(WSub(xa, <<xb[1], xb[2]>>), <<0, IF xb[3] THEN 1 ELSE 0>>),
        e, xb[3])

\* a + b for nonzero a, b with |a| >= |b|
AddOrdered(a, b) ==
  IF a.s # b.s /\ a.e = b.e /\ a.hi = b.hi /\ a.lo = b.lo THEN Zero
  ELSE AddAligned(a.s, a.s = b.s, WShl(Sig(a), 3),
                  WShr(WShl(Sig(b), 3), a.e - b.e), a.e - 3)

FAdd(a, b) ==
  IF a.s = 0 THEN b
  ELSE IF b.s = 0 THEN a
  ELSE AddOrdered(IF MagLt(a, b) THEN b ELSE a, IF MagLt(a, b) THEN a ELSE b)

FSub(a, b) == FAdd(a, FNeg(b))

\* the four 13-bit limbs (the top one 14 bits) of a significand
Limbs(a) ==
  <<a.lo % 8192, a.lo \div 8192, a.hi % 8192, a.hi \div 8192>>

\* the column sums of the schoolbook product of two limb sequences
Columns(x, y) ==
  <<x[1] * y[1],
    x[1] * y[2] + x[2] * y[1],
    x[1] * y[3] + x[2] * y[2] + x[3] * y[1],
    x[1] * y[4] + x[2] * y[3] + x[3] * y[2] + x[4] * y[1],
    x[2] * y[4] + x[3] * y[3] + x[4] * y[2],
    x[3] * y[4] + x[4] * y[3],
    x[4] * y[4]>>

\* the base-8192 digits of the columns p[k..], carry c coming in; the last
\* digit keeps what is above it
RECURSIVE Digits(_, _, _)
Digits(p, k, c) ==
  IF k = Len(p) THEN <<p[k] + c>>
  ELSE <<(p[k] + c) % 8192>> \o Digits(p, k + 1, (p[k] + c) \div 8192)

\* the product with digits dg: its bits from 2^50 up, rounded
MulRound(s, dg, e) ==
  Round(s,
        WAdd(WShl(<<dg[7], dg[6] * 8192 + dg[5]>>, 2), <<0, dg[4] \div 2048>>),
        e,
        dg[4] % 2048 # 0 \/ dg[3] # 0 \/ dg[2] # 0 \/ dg[1] # 0)

FMul(a, b) ==
  IF a.s = 0 \/ b.s = 0 THEN Zero
  ELSE MulRound(a.s * b.s, Digits(Columns(Limbs(a), Limbs(b)), 1, 0),
                a.e + b.e + 50)

\* the remainder r0 and the quotient 16 * q + g, corrected by one when the
\* estimated digit g was one too small
DivCorrect(d, r0, q16, g) ==
  IF WGe(r0, d) THEN <<WSub(r0, d), WAdd(q16, <<0, g + 1>>)>>
  ELSE <<r0, WAdd(q16, <<0, g>>)>>

DivDigit(d, r16, q16, g) ==
  DivCorrect(d, WSub(r16, WNorm(d[1] * g, d[2] * g)), q16, g)

\* One step of the long division by the significand d: x = <<rem, q>> with
\* rem < d becomes <<16 * rem - g * d, 16 * q + g>> for the next quotient
\* digit g = floor(16 * rem / d), estimated from the leading limbs and then
\* corrected by at most one.
DivStep(d, r16, q16) == DivDigit(d, r16, q16, r16[1] \div (d[1] + 1))

\* n more steps of the division by d
RECURSIVE Quot(_, _, _)
Quot(d, x, n) ==
  IF n = 0 THEN x
  ELSE IF x[1] = <<0, 0>> THEN <<x[1], WShl(x[2], 4 * n)>>
  ELSE Quot(d, DivStep(d, WShl(x[1], 4), WShl(x[2], 4)), n - 1)

DivRound(s, qr, e) == Round(s, qr[2], e, qr[1] # <<0, 0>>)

\* a / b for b # 0: floor(|a| * 2^56 / |b|) on the significands, then rounded
FDiv(a, b) ==
  IF a.s = 0 THEN Zero
  ELSE DivRound(a.s * b.s,
                Quot(Sig(b),
                     IF WGe(Sig(a), Sig(b)) THEN <<WSub(Sig(a), Sig(b)), <<0, 1>>>>
                     ELSE <<Sig(a), <<0, 0>>>>,
                     14),
                a.e - b.e - 56)

\* y = floor(2 * |a|), y[3]: 2 * |a| is not whole
RoundHalfUp(s, y) ==
  Round(s,
        WAdd(<<y[1] \div 2, (y[1] % 2) * 2^25 + (y[2] \div 2)>>,
             <<0, IF y[2] % 2 = 1 /\ (s = 1 \/ y[3]) THEN 1 ELSE 0>>),
        0, FALSE)

\* Math.round: the nearest integer, a tie going up (towards +Infinity)
MathRound(a) ==
  IF a.s = 0 THEN Zero
  ELSE IF a.e >= 0 THEN a
  ELSE IF a.e < -54 THEN Zero
  ELSE RoundHalfUp(a.s, WShr(Sig(a), (-a.e) - 1))

\* the number written n/d in decimal notation (d a power of ten), as the
\* JavaScript parser reads it: the binary64 nearest to n/d
Dec(n, d) == FDiv(FromInt(n), FromInt(d))

IsPos(a) == a.s = 1

Square(h) == FMul(h, h)

\* Math.pow(x, n) for a whole n >= 0, by binary exponentiation; the library
\* routine's result can differ from it in the last units of the significand
RECURSIVE MathPow(_, _)
MathPow(x, n) ==
  IF n = 0 THEN One
  ELSE IF n % 2 = 1 THEN FMul(Square(MathPow(x, n \div 2)), x)
  ELSE Square(MathPow(x, n \div 2))

----------------------------------------------------------------------------
(* lib/finance *)

round2(n) == FDiv(MathRound(FMul(n, Hundred)), Hundred)

\* years is a whole number of years
pmt_YearsAsMonths(rateAnnual, years, principal) ==
  LET m == years
      r == FDiv(rateAnnual, Twelve)
  IN  IF FLe(principal, Zero) \/ years <= 0 THEN Zero
      ELSE IF FLe(rateAnnual, Zero) THEN FDiv(principal, FromInt(m))
      ELSE LET pw == MathPow(FAdd(One, r), m)
           IN  FDiv(FMul(principal, FMul(r, pw)), FSub(pw, One))

pmt(rateAnnual, years, principal) ==
  LET m == years * 12
      r == FDiv(rateAnnual, Twelve)
  IN  IF FLe(principal, Zero) \/ years <= 0 THEN Zero
      ELSE IF FLe(rateAnnual, Zero) THEN FDiv(principal, FromInt(m))
      ELSE LET pw == MathPow(FAdd(One, r), m)
           IN  FDiv(FMul(principal, FMul(r, pw)), FSub(pw, One))

\* the loop of buildAmort: rows i..m, from the balance bal
RECURSIVE AmortRows(_, _, _, _, _)
AmortRows(i, m, pay, r, bal) ==
  IF i > m THEN <<>>
  ELSE LET interest == FMul(bal, r)
           princ    == FMin(FSub(pay, interest), bal)
           bal1     == FMax(Zero, FSub(bal, princ))
           row      == [month     |-> i,
                        payment   |-> round2(pay),
                        interest  |-> round2(interest),
                        principal |-> round2(princ),
                        balance   |-> round2(bal1)]
       IN  <<row>> \o AmortRows(i + 1, m, pay, r, bal1)

\* buildAmort with an early return for a loan of nothing
buildAmort_EarlyReturn(principal, rateAnnual, years) ==
  IF FLe(principal, Zero) THEN <<>>
  ELSE AmortRows(1, years * 12, pmt(rateAnnual, years, principal),
                 FDiv(rateAnnual, Twelve), principal)

buildAmort(principal, rateAnnual, years) ==
  AmortRows(1, years * 12, pmt(rateAnnual, years, principal),
            FDiv(rateAnnual, Twelve), principal)

\* rows.reduce((sum, row) => sum + row[f], 0) over the first n rows
RECURSIVE SumField(_, _, _)
SumField(rows, f, n) ==
  IF n = 0 THEN Zero
  ELSE FAdd(SumField(rows, f, n - 1), rows[n][f])

getAmortTotals(rows) ==
  [totalInterest  |-> round2(SumField(rows, "interest", Len(rows))),
   totalPrincipal |-> round2(SumField(rows, "principal", Len(rows)))]

\* the project cost the summary and the automatic bank loan both start from
TotalProjectOf(inputs) ==
  LET regTax       == FMul(inputs.purchasePrice,
                           FDiv(inputs.registrationRatePct, Hundred))
      renoWithCont == FMul(inputs.renovationBudget,
                           FAdd(One, FDiv(inputs.contingencyPct, Hundred)))
  IN  [regTax       |-> regTax,
       renoWithCont |-> renoWithCont,
       totalProject |-> FAdd(FAdd(FAdd(inputs.purchasePrice, regTax),
                                  inputs.notaryFees), renoWithCont)]

calculateSummary_AirbnbAlways(inputs) ==
  LET cost         == TotalProjectOf(inputs)
      totalSources == FAdd(FAdd(FAdd(inputs.ownCash, inputs.cryptoNet),
                                inputs.familyLoanAmount), inputs.bankLoanAmount)
      fundingGap   == round2(FSub(cost.totalProject, totalSources))
      bankMonthly  == pmt(FDiv(inputs.bankRatePct, Hundred),
                          inputs.bankTermYears, inputs.bankLoanAmount)
      familyMonthly == pmt(FDiv(inputs.familyLoanRatePct, Hundred),
                           inputs.familyLoanTermYears, inputs.familyLoanAmount)
      totalDebt    == FAdd(bankMonthly, familyMonthly)
      airbnb       == inputs.airbnbIncome
      netAfter     == FSub(FAdd(FSub(inputs.netIncomeMonthly,
                                     inputs.otherFixedCostsMonthly), airbnb),
                           totalDebt)
      dtiPct       == IF FLt(Zero, inputs.netIncomeMonthly)
                      THEN FMul(FDiv(totalDebt, inputs.netIncomeMonthly), Hundred)
                      ELSE Zero
  IN  [regTax        |-> round2(cost.regTax),
       renoWithCont  |-> round2(cost.renoWithCont),
       totalProject  |-> round2(cost.totalProject),
       totalSources  |-> round2(totalSources),
       fundingGap    |-> fundingGap,
       bankMonthly   |-> round2(bankMonthly),
       familyMonthly |-> round2(familyMonthly),
       totalDebt     |-> round2(totalDebt),
       dtiPct        |-> round2(dtiPct),
       netAfter      |-> round2(netAfter)]

calculateSummary(inputs) ==
  LET cost         == TotalProjectOf(inputs)
      totalSources == FAdd(FAdd(FAdd(inputs.ownCash, inputs.cryptoNet),
                                inputs.familyLoanAmount), inputs.bankLoanAmount)
      fundingGap   == round2(FSub(cost.totalProject, totalSources))
      bankMonthly  == pmt(FDiv(inputs.bankRatePct, Hundred),
                          inputs.bankTermYears, inputs.bankLoanAmount)
      familyMonthly == pmt(FDiv(inputs.familyLoanRatePct, Hundred),
                           inputs.familyLoanTermYears, inputs.familyLoanAmount)
      totalDebt    == FAdd(bankMonthly, familyMonthly)
      airbnb       == IF inputs.useAirbnbIncome THEN inputs.airbnbIncome ELSE Zero
      netAfter     == FSub(FAdd(FSub(inputs.netIncomeMonthly,
                                     inputs.otherFixedCostsMonthly), airbnb),
                           totalDebt)
      dtiPct       == IF FLt(Zero, inputs.netIncomeMonthly)
                      THEN FMul(FDiv(totalDebt, inputs.netIncomeMonthly), Hundred)
                      ELSE Zero
  IN  [regTax        |-> round2(cost.regTax),
       renoWithCont  |-> round2(cost.renoWithCont),
       totalProject  |-> round2(cost.totalProject),
       totalSources  |-> round2(totalSources),
       fundingGap    |-> fundingGap,
       bankMonthly   |-> round2(bankMonthly),
       familyMonthly |-> round2(familyMonthly),
       totalDebt     |-> round2(totalDebt),
       dtiPct        |-> round2(dtiPct),
       netAfter      |-> round2(netAfter)]

calculateBankLoanAmount_NoClamp(inputs) ==
  LET otherSources == FAdd(FAdd(inputs.ownCash, inputs.cryptoNet),
                           inputs.familyLoanAmount)
      bankLoan     == FSub(TotalProjectOf(inputs).totalProject, otherSources)
  IN  round2(bankLoan)

calculateBankLoanAmount(inputs) ==
  LET otherSources == FAdd(FAdd(inputs.ownCash, inputs.cryptoNet),
                           inputs.familyLoanAmount)
      bankLoan     == FSub(TotalProjectOf(inputs).totalProject, otherSources)
  IN  FMax(Zero, round2(bankLoan))

DEFAULT_INPUTS_BASE ==
  [purchasePrice          |-> FromInt(700000),
   registrationRatePct    |-> FromInt(2),
   notaryFees             |-> FromInt(5000),
   renovationBudget       |-> FromInt(450000),
   contingencyPct         |-> Twelve,
   ownCash                |-> FromInt(30000),
   cryptoNet              |-> Zero,
   familyLoanAmount       |-> FromInt(200000),
   familyLoanRatePct      |-> Dec(15, 10),
   familyLoanTermYears    |-> 15,
   bankLoanAmount         |-> Zero,
   bankRatePct            |-> FromInt(4),
   bankTermYears          |-> 25,
   airbnbIncome           |-> FromInt(800),
   useAirbnbIncome        |-> TRUE,
   businessUsePct         |-> FromInt(15),
   netIncomeMonthly       |-> FromInt(10500),
   otherFixedCostsMonthly |-> FromInt(1500)]

DEFAULT_INPUTS ==
  [DEFAULT_INPUTS_BASE EXCEPT
     !.bankLoanAmount = calculateBankLoanAmount(DEFAULT_INPUTS_BASE)]

----------------------------------------------------------------------------
(* lib/sensitivity: the grid of monthly payments per loan amount and rate *)

DEFAULT_SENSITIVITY_CONFIG ==
  [minAmount  |-> FromInt(600000),
   maxAmount  |-> FromInt(1000000),
   stepAmount |-> FromInt(25000),
   minRate    |-> FromInt(3),
   maxRate    |-> Dec(55, 10),
   stepRate   |-> Dec(25, 100)]

\* for (x = from; x <= max; x += step) has no exit: some x <= max is not
\* followed by a larger one, so every later x is <= max as well
RECURSIVE ForNeverEnds(_, _, _)
ForNeverEnds(x, max, step) ==
  IF FLt(max, x) THEN FALSE
  ELSE IF FLe(FAdd(x, step), x) THEN TRUE
  ELSE ForNeverEnds(FAdd(x, step), max, step)

\* the cell pushed for amount and rate
SensitivityCell(amount, rate, monthly, familyMonthly, netIncomeMonthly) ==
  [amount        |-> amount,
   rate          |-> round2(rate),
   monthly       |-> round2(monthly),
   isComfortable |->
     FLe(IF FLt(Zero, netIncomeMonthly)
           THEN FMul(FDiv(FAdd(monthly, familyMonthly), netIncomeMonthly), Hundred)
           ELSE Hundred,
         FromInt(45))]

\* the inner loop, from rate on, of a row whose loop ends
RECURSIVE SensitivityRow(_, _, _, _, _, _)
SensitivityRow(rate, config, amount, bankTermYears, familyMonthly, netIncomeMonthly) ==
  IF FLe(rate, config.maxRate)
    THEN <<SensitivityCell(amount, rate,
                           pmt(FDiv(rate, Hundred), bankTermYears, amount),
                           familyMonthly, netIncomeMonthly)>>
         \o SensitivityRow(FAdd(rate, config.stepRate), config, amount,
                           bankTermYears, familyMonthly, netIncomeMonthly)
    ELSE <<>>

\* the outer loop, from amount on, when both loops end
RECURSIVE SensitivityRows(_, _, _, _, _)
SensitivityRows(amount, config, bankTermYears, familyMonthly, netIncomeMonthly) ==
  IF FLe(amount, config.maxAmount)
    THEN <<SensitivityRow(config.minRate, config, amount, bankTermYears,
                          familyMonthly, netIncomeMonthly)>>
         \o SensitivityRows(FAdd(amount, config.stepAmount), config,
                            bankTermYears, familyMonthly, netIncomeMonthly)
    ELSE <<>>

\* The call either returns the grid or never returns: the function has no
\* throw and no return but the one after the loops.  The inner loop runs only
\* when the outer loop has a first row.
generateSensitivityGrid(config, bankTermYears, familyMonthly, netIncomeMonthly) ==
  IF \/ ForNeverEnds(config.minAmount, config.maxAmount, config.stepAmount)
     \/ /\ FLe(config.minAmount, config.maxAmount)
        /\ ForNeverEnds(config.minRate, config.maxRate, config.stepRate)
    THEN [outcome |-> "never returns", grid |-> <<>>]
    ELSE [outcome |-> "returns",
          grid    |-> SensitivityRows(config.minAmount, config, bankTermYears,
                                      familyMonthly, netIncomeMonthly)]

\* grid.map((row) => row[0].amount): row[0] of a row without cells is
\* undefined, and reading its amount throws a TypeError
getAmounts(grid) ==
  IF \E k \in 1..Len(grid) : Len(grid[k]) = 0
    THEN [outcome |-> "throws TypeError", value |-> <<>>]
    ELSE [outcome |-> "returns",
          value   |-> [k \in 1..Len(grid) |-> grid[k][1].amount]]

\* the rates of the first row, and none for a grid without rows
getRates(grid) ==
  IF Len(grid) = 0
    THEN [outcome |-> "returns", value |-> <<>>]
    ELSE [outcome |-> "returns",
          value   |-> [c \in 1..Len(grid[1]) |-> grid[1][c].rate]]

----------------------------------------------------------------------------
(* lib/advisor: scenarios, overall risk and recommendations.  The texts
   (summaryText, fullText, the amounts written into a sentence) are left out:
   a recommendation is the name of its sentence. *)

\* a single scenario
calculateScenario(name, bankRate, incomeDelta, netIncome, inputs, familyMonthly) ==
  LET bankMonthly == pmt(FDiv(bankRate, Hundred), inputs.bankTermYears,
                         inputs.bankLoanAmount)
      totalDebt   == FAdd(bankMonthly, familyMonthly)
      dtiPct      == IF FLt(Zero, netIncome)
                     THEN FMul(FDiv(totalDebt, netIncome), Hundred)
                     ELSE Hundred
      airbnb      == IF inputs.useAirbnbIncome THEN inputs.airbnbIncome ELSE Zero
      monthlyNet  == FSub(FAdd(FSub(netIncome, inputs.otherFixedCostsMonthly),
                               airbnb),
                          totalDebt)
      risk        == IF FLe(dtiPct, FromInt(45)) /\ FLt(FromInt(1000), monthlyNet)
                       THEN "Laag"
                     ELSE IF FLe(dtiPct, FromInt(55)) /\ FLt(Zero, monthlyNet)
                       THEN "Gemiddeld"
                     ELSE "Hoog"
  IN  [name          |-> name,
       rate          |-> round2(bankRate),
       incomeDelta   |-> incomeDelta,
       bankMonthly   |-> round2(bankMonthly),
       familyMonthly |-> round2(familyMonthly),
       totalDebt     |-> round2(totalDebt),
       dtiPct        |-> round2(dtiPct),
       monthlyNet    |-> round2(monthlyNet),
       risk          |-> risk]

generateScenarios_NoFloor(inputs, summary) ==
  <<calculateScenario("Optimistisch",
                      FSub(inputs.bankRatePct, Dec(5, 10)),
                      10, FMul(inputs.netIncomeMonthly, Dec(11, 10)),
                      inputs, summary.familyMonthly),
    calculateScenario("Realistisch", inputs.bankRatePct,
                      0, inputs.netIncomeMonthly,
                      inputs, summary.familyMonthly),
    calculateScenario("Conservatief",
                      FAdd(inputs.bankRatePct, Dec(5, 10)),
                      -10, FMul(inputs.netIncomeMonthly, Dec(9, 10)),
                      inputs, summary.familyMonthly)>>

\* the three scenarios: Optimistisch, Realistisch, Conservatief
generateScenarios(inputs, summary) ==
  <<calculateScenario("Optimistisch",
                      FMax(Dec(5, 10), FSub(inputs.bankRatePct, Dec(5, 10))),
                      10, FMul(inputs.netIncomeMonthly, Dec(11, 10)),
                      inputs, summary.familyMonthly),
    calculateScenario("Realistisch", inputs.bankRatePct,
                      0, inputs.netIncomeMonthly,
                      inputs, summary.familyMonthly),
    calculateScenario("Conservatief",
                      FAdd(inputs.bankRatePct, Dec(5, 10)),
                      -10, FMul(inputs.netIncomeMonthly, Dec(9, 10)),
                      inputs, summary.familyMonthly)>>

assessOverallRisk_IgnoresGap(summary, scenarios) ==
  IF scenarios[2].risk = "Hoog"
    THEN [riskLevel |-> "Hoog risico - DTI te hoog en/of onvoldoende buffer",
          riskColor |-> "red"]
  ELSE IF scenarios[2].risk = "Gemiddeld"
    THEN [riskLevel |-> "Gemiddeld risico - Haalbaar mits stabiel inkomen en buffer",
          riskColor |-> "yellow"]
  ELSE [riskLevel |-> "Laag risico - Financieel gezond en haalbaar",
        riskColor |-> "green"]

\* the overall risk; scenarios[1] of the source is the second scenario
assessOverallRisk(summary, scenarios) ==
  IF FLt(Zero, summary.fundingGap)
    THEN [riskLevel |-> "Hoog risico - Tekort in financiering",
          riskColor |-> "red"]
  ELSE IF scenarios[2].risk = "Hoog"
    THEN [riskLevel |-> "Hoog risico - DTI te hoog en/of onvoldoende buffer",
          riskColor |-> "red"]
  ELSE IF scenarios[2].risk = "Gemiddeld"
    THEN [riskLevel |-> "Gemiddeld risico - Haalbaar mits stabiel inkomen en buffer",
          riskColor |-> "yellow"]
  ELSE [riskLevel |-> "Laag risico - Financieel gezond en haalbaar",
        riskColor |-> "green"]

\* recommendations.push(text) under a condition
PushIf(cond, recommendations, text) ==
  IF cond THEN Append(recommendations, text) ELSE recommendations

RecommendationsPushed_NoLengthCheck(inputs, summary, scenarios) ==
  LET r1 == PushIf(FLt(Zero, summary.fundingGap), <<>>, "Vul het tekort aan")
      r2 == PushIf(FLt(FromInt(45), summary.dtiPct), r1,
                   IF FLt(FromInt(55), summary.dtiPct)
                     THEN "DTI is te hoog"
                     ELSE "DTI is aan de hoge kant")
      r3 == PushIf(FLt(summary.netAfter, FromInt(1000)), r2,
                   "Behoud een buffer")
      r4 == PushIf(FLt(FromInt(60), scenarios[3].dtiPct), r3,
                   "Bij rentestijging loopt DTI op")
      r5 == PushIf(inputs.useAirbnbIncome /\ FLt(FromInt(500), inputs.airbnbIncome),
                   r4, "Je plan rekent op Airbnb-inkomen")
      r6 == PushIf(FLt(inputs.contingencyPct, Twelve), r5,
                   "Verhoog contingency")
  IN  PushIf(/\ FLe(summary.fundingGap, Zero)
             /\ FLe(summary.dtiPct, FromInt(45))
             /\ FLe(FromInt(1500), summary.netAfter),
             r6, "Het plan ziet er financieel solide uit")

\* the recommendations pushed by the seven checks, before the list is cut
RecommendationsPushed(inputs, summary, scenarios) ==
  LET r1 == PushIf(FLt(Zero, summary.fundingGap), <<>>, "Vul het tekort aan")
      r2 == PushIf(FLt(FromInt(45), summary.dtiPct), r1,
                   IF FLt(FromInt(55), summary.dtiPct)
                     THEN "DTI is te hoog"
                     ELSE "DTI is aan de hoge kant")
      r3 == PushIf(FLt(summary.netAfter, FromInt(1000)), r2,
                   "Behoud een buffer")
      r4 == PushIf(FLt(FromInt(60), scenarios[3].dtiPct), r3,
                   "Bij rentestijging loopt DTI op")
      r5 == PushIf(inputs.useAirbnbIncome /\ FLt(FromInt(500), inputs.airbnbIncome),
                   r4, "Je plan rekent op Airbnb-inkomen")
      r6 == PushIf(FLt(inputs.contingencyPct, Twelve), r5,
                   "Verhoog contingency")
  IN  PushIf(/\ FLe(summary.fundingGap, Zero)
             /\ FLe(summary.dtiPct, FromInt(45))
             /\ FLe(FromInt(1500), summary.netAfter)
             /\ Len(r6) < 2,
             r6, "Het plan ziet er financieel solide uit")

\* recommendations.slice(0, 5)
SliceFive(recommendations) ==
  SubSeq(recommendations, 1, IF Len(recommendations) < 5
                               THEN Len(recommendations) ELSE 5)

generateRecommendations_NoLimit(inputs, summary, scenarios) ==
  RecommendationsPushed(inputs, summary, scenarios)

generateRecommendations(inputs, summary, scenarios) ==
  SliceFive(RecommendationsPushed(inputs, summary, scenarios))

\* the analysis returned for the scenarios generated
AnalysisOf(inputs, summary, scenarios) ==
  [riskLevel       |-> assessOverallRisk(summary, scenarios).riskLevel,
   riskColor       |-> assessOverallRisk(summary, scenarios).riskColor,
   scenarios       |-> scenarios,
   recommendations |-> generateRecommendations(inputs, summary, scenarios)]

analyzeFinancials(inputs, summary) ==
  AnalysisOf(inputs, summary, generateScenarios(inputs, summary))

----------------------------------------------------------------------------
(* lib/storage: the scenarios kept in localStorage.  The storage is a record
   ls of the item under STORAGE_KEY as loadScenarios parses it (stored, <<>>
   when the item is not set), the item under DEFAULT_SCENARIO_KEY (defaultId),
   the clock (now) and the number of ids generated so far (generated); every
   function returns the storage it leaves, with what it returned.  A text of
   JSON is the value it parses to: a scenario is a record of the fields it
   has, and a text that is no JSON or no array carries no items. *)

\* localStorage.getItem of a key that is not set
Null == "null"

\* generateId: Date.now() and Math.random() give an id no earlier call gave
generateId(n) == "scenario-" \o ToString(n)

\* JSON.stringify of an array of scenarios
JsonArray(items) == [json |-> "array", items |-> items]

\* the field of a parsed scenario is missing or falsy
Lacks(scenario, field) ==
  \/ field \notin DOMAIN scenario
  \/ field \in {"id", "name"} /\ scenario[field] = ""

\* scenarios.findIndex((s) => s.id === id), from 1, and 0 for -1
FindIndex(scenarios, id) ==
  IF \E k \in 1..Len(scenarios) : scenarios[k].id = id
    THEN CHOOSE k \in 1..Len(scenarios) :
           /\ scenarios[k].id = id
           /\ \A j \in 1..(k - 1) : scenarios[j].id # id
    ELSE 0

\* {...scenario, ...updates}
Spread(scenario, updates) ==
  [f \in DOMAIN scenario \cup DOMAIN updates |->
     IF f \in DOMAIN updates THEN updates[f] ELSE scenario[f]]

\* what a call returned: a value, null, nothing, or the error it threw
ReturnsValue(value) == [kind |-> "value", value |-> value]
ReturnsNull == [kind |-> "null"]
ReturnsUndefined == [kind |-> "undefined"]
Throws(message) == [kind |-> "throws", message |-> message]

\* the scenario createScenario makes; its two dates are taken as one
NewScenario(ls, name, inputs) ==
  [id        |-> generateId(ls.generated + 1),
   name      |-> name,
   inputs    |-> inputs,
   createdAt |-> ls.now,
   updatedAt |-> ls.now]

createScenario(ls, name, inputs) ==
  [ls EXCEPT !.stored = Append(@, NewScenario(ls, name, inputs)),
             !.generated = @ + 1,
             !.returned = ReturnsValue(NewScenario(ls, name, inputs))]

\* scenarios[index] after the update
Updated(ls, id, updates) ==
  Spread(ls.stored[FindIndex(ls.stored, id)],
         Spread(updates, [updatedAt |-> ls.now]))

updateScenario_KeepsUpdatedAt(ls, id, updates) ==
  IF FindIndex(ls.stored, id) = 0
    THEN [ls EXCEPT !.returned = ReturnsNull]
    ELSE [ls EXCEPT
            !.stored[FindIndex(ls.stored, id)] = Spread(@, updates),
            !.returned = ReturnsValue(Spread(ls.stored[FindIndex(ls.stored, id)],
                                             updates))]

updateScenario(ls, id, updates) ==
  IF FindIndex(ls.stored, id) = 0
    THEN [ls EXCEPT !.returned = ReturnsNull]
    ELSE [ls EXCEPT !.stored[FindIndex(ls.stored, id)] = Updated(ls, id, updates),
                    !.returned = ReturnsValue(Updated(ls, id, updates))]

\* scenarios.filter((s) => s.id !== id)
WithoutId(scenarios, id) == SelectSeq(scenarios, LAMBDA s : s.id # id)

deleteScenario_KeepsDefault(ls, id) ==
  IF Len(WithoutId(ls.stored, id)) = Len(ls.stored)
    THEN [ls EXCEPT !.returned = ReturnsValue(FALSE)]
    ELSE [ls EXCEPT !.stored = WithoutId(ls.stored, id),
                    !.returned = ReturnsValue(TRUE)]

deleteScenario(ls, id) ==
  IF Len(WithoutId(ls.stored, id)) = Len(ls.stored)
    THEN [ls EXCEPT !.returned = ReturnsValue(FALSE)]
    ELSE [ls EXCEPT !.stored = WithoutId(ls.stored, id),
                    !.defaultId = IF ls.defaultId = id THEN Null ELSE @,
                    !.returned = ReturnsValue(TRUE)]

\* duplicateScenario(id) with no newName
duplicateScenario(ls, id) ==
  IF FindIndex(ls.stored, id) = 0
    THEN [ls EXCEPT !.returned = ReturnsNull]
    ELSE createScenario(ls, ls.stored[FindIndex(ls.stored, id)].name \o " (copy)",
                        ls.stored[FindIndex(ls.stored, id)].inputs)

setDefaultScenario(ls, id) ==
  [ls EXCEPT !.defaultId = id, !.returned = ReturnsUndefined]

\* getScenario(getDefaultScenarioId()): null when no id is set or no scenario
\* has it
getDefaultScenario(ls) ==
  IF ls.defaultId = Null \/ FindIndex(ls.stored, ls.defaultId) = 0
    THEN ReturnsNull
    ELSE ReturnsValue(ls.stored[FindIndex(ls.stored, ls.defaultId)])

exportScenarios(ls) == JsonArray(ls.stored)

\* imported.map((s) => ({...s, id: generateId(), createdAt, updatedAt})), the
\* dates of one call taken as one
RECURSIVE WithNewIds(_, _, _)
WithNewIds(imported, generatedSoFar, date) ==
  IF imported = <<>> THEN <<>>
  ELSE <<Spread(Head(imported), [id        |-> generateId(generatedSoFar + 1),
                                 createdAt |-> date,
                                 updatedAt |-> date])>>
       \o WithNewIds(Tail(imported), generatedSoFar + 1, date)

\* the try block throws: JSON.parse does, the value is no array, or a
\* scenario lacks id, name or inputs
ImportThrows(json) ==
  \/ json.json # "array"
  \/ \E k \in 1..Len(json.items) :
       \E field \in {"id", "name", "inputs"} : Lacks(json.items[k], field)

importScenarios_KeepsIds(ls, json, merge) ==
  IF ImportThrows(json)
    THEN [ls EXCEPT !.returned = Throws("Could not import scenarios. Invalid format.")]
    ELSE [ls EXCEPT !.stored = (IF merge THEN ls.stored ELSE <<>>) \o json.items,
                    !.returned = ReturnsValue(Len(json.items))]

importScenarios_ClearsFirst(ls, json, merge) ==
  IF ImportThrows(json)
    THEN [ls EXCEPT !.stored = IF merge THEN ls.stored ELSE <<>>,
                    !.returned = Throws("Could not import scenarios. Invalid format.")]
    ELSE [ls EXCEPT !.stored = (IF merge THEN ls.stored ELSE <<>>)
                               \o WithNewIds(json.items, ls.generated, ls.now),
                    !.generated = @ + Len(json.items),
                    !.returned = ReturnsValue(Len(json.items))]

importScenarios(ls, json, merge) ==
  IF ImportThrows(json)
    THEN [ls EXCEPT !.returned = Throws("Could not import scenarios. Invalid format.")]
    ELSE [ls EXCEPT !.stored = (IF merge THEN ls.stored ELSE <<>>)
                               \o WithNewIds(json.items, ls.generated, ls.now),
                    !.generated = @ + Len(json.items),
                    !.returned = ReturnsValue(Len(json.items))]

clearAllScenarios(ls) ==
  [ls EXCEPT !.stored = <<>>, !.defaultId = Null, !.returned = ReturnsUndefined]

initializeDefaultScenario(ls) ==
  IF Len(ls.stored) = 0
    THEN [setDefaultScenario(createScenario(ls, "Default Plan", DEFAULT_INPUTS),
                             generateId(ls.generated + 1))
            EXCEPT !.returned = ReturnsValue(NewScenario(ls, "Default Plan",
                                                         DEFAULT_INPUTS))]
    ELSE [ls EXCEPT !.returned = ReturnsNull]

----------------------------------------------------------------------------
(* components/SummaryCards: the affordability banner *)

SummaryCards(summary) ==
  LET isFundingGapBad == FLt(Zero, summary.fundingGap)
      isDTIAmber      == FLt(FromInt(45), summary.dtiPct)
      isDTIRed        == FLt(FromInt(55), summary.dtiPct)
      isNetAfterBad   == FLt(summary.netAfter, Zero)
      hasIssues       == isFundingGapBad \/ isDTIRed \/ isNetAfterBad
      needsAttention  == ~hasIssues /\ isDTIAmber
  IN  IF hasIssues THEN "hasIssues"
      ELSE IF needsAttention THEN "needsAttention"
      ELSE "looksGood"

----------------------------------------------------------------------------
(* State *)

VARIABLES
  pc,       \* which call comes next
  loan,     \* the loan shown in the amortization table: amount, ratePct, years
  rows,     \* the schedule buildAmort returned
  totals,   \* what getAmortTotals returned for rows
  inputs,   \* the FinancialInputs
  summary,  \* what calculateSummary returned for inputs
  banner,   \* the affordability banner SummaryCards shows
  config,   \* the SensitivityConfig
  grid,     \* the outcome of generateSensitivityGrid for config
  calls,    \* the arguments of the calls of pmt to compare
  payments, \* what pmt returned for the calls made so far
  bankLoan, \* what calculateBankLoanAmount returned for inputs
  analysis, \* what analyzeFinancials returned for inputs and summary
  axes,     \* what getAmounts and getRates did for the grid
  stored,   \* localStorage: the scenarios under STORAGE_KEY
  defaultId, \* localStorage: the id under DEFAULT_SCENARIO_KEY
  now,      \* the clock
  generated, \* how many ids generateId has returned
  returned  \* the last call of lib/storage and what it returned

vars == <<pc, loan, rows, totals, inputs, summary, banner, config, grid,
          calls, payments, bankLoan, analysis, axes, stored, defaultId, now,
          generated, returned>>

amortVars == <<loan, rows, totals>>
summaryVars == <<inputs, summary, banner>>
gridVars == <<config, grid>>
pmtVars == <<calls, payments>>
storageVars == <<stored, defaultId, now, generated, returned>>

NoSummary ==
  [f \in {"regTax", "renoWithCont", "totalProject", "totalSources", "fundingGap",
          "bankMonthly", "familyMonthly", "totalDebt", "dtiPct", "netAfter"}
     |-> Zero]

NoTotals == [totalInterest |-> Zero, totalPrincipal |-> Zero]

NoLoan == [amount |-> Zero, ratePct |-> Zero, years |-> 0]

SummaryIdle == inputs = DEFAULT_INPUTS /\ summary = NoSummary /\ banner = "none"

AmortIdle == loan = NoLoan /\ rows = <<>> /\ totals = NoTotals

NoGrid == [outcome |-> "none", grid |-> <<>>]

GridIdle == config = DEFAULT_SENSITIVITY_CONFIG /\ grid = NoGrid

PmtIdle == calls = <<>> /\ payments = <<>>

NoAnalysis ==
  [riskLevel |-> "none", riskColor |-> "none", scenarios |-> <<>>,
   recommendations |-> <<>>]

AdvisorIdle == bankLoan = Zero /\ analysis = NoAnalysis

NoAxes == [amounts |-> "none", rates |-> "none"]

AxesIdle == axes = NoAxes

NoCall == [call |-> "none", kind |-> "none"]

StorageIdle ==
  stored = <<>> /\ defaultId = Null /\ now = 0 /\ generated = 0 /\ returned = NoCall


----------------------------------------------------------------------------
(* The amortization table: App builds the schedule of a loan of the current
   inputs and AmortTable totals its rows *)

MaxYears == 2

LoanAmounts ==
  {Zero, FromInt(1000), FromInt(100000), FromInt(250000), FromInt(300000),
   Dec(1234567, 100)}

LoanRatePcts ==
  {Zero, Dec(15, 10), FromInt(4), FromInt(3600), FromInt(25200)}

InitAmort ==
  /\ pc = "args"
  /\ loan \in [amount : LoanAmounts, ratePct : LoanRatePcts, years : 0..MaxYears]
  /\ rows = <<>>
  /\ totals = NoTotals
  /\ SummaryIdle
  /\ GridIdle
  /\ PmtIdle
  /\ AdvisorIdle
  /\ AxesIdle
  /\ StorageIdle

BuildAmort ==
  /\ pc = "args"
  /\ rows' = buildAmort(loan.amount, FDiv(loan.ratePct, Hundred), loan.years)
  /\ pc' = "rows"
  /\ UNCHANGED <<loan, totals, summaryVars, gridVars, pmtVars, bankLoan, analysis, axes, storageVars>>

GetAmortTotals ==
  /\ pc = "rows"
  /\ totals' = getAmortTotals(rows)
  /\ pc' = "totals"
  /\ UNCHANGED <<loan, rows, summaryVars, gridVars, pmtVars, bankLoan, analysis, axes, storageVars>>

NextAmort == BuildAmort \/ GetAmortTotals

SpecAmort == InitAmort /\ [][NextAmort]_vars

----------------------------------------------------------------------------
(* The summary: App summarizes the current inputs and SummaryCards shows the
   banner of the summary *)

SummaryInputs ==
  {[DEFAULT_INPUTS EXCEPT !.netIncomeMonthly = ni, !.otherFixedCostsMonthly = oc,
                          !.useAirbnbIncome = ab, !.notaryFees = nf, !.ownCash = cash] :
     ni \in {Zero, FromInt(10500), FromInt(13000), FromInt(15000)},
     oc \in {FromInt(1500), Dec(931709, 100)},
     ab \in BOOLEAN,
     nf \in {FromInt(5000), Dec(5000006, 1000)},
     cash \in {FromInt(30000), Dec(30000004, 1000)}}

InitSummary ==
  /\ pc = "inputs"
  /\ inputs \in SummaryInputs
  /\ summary = NoSummary
  /\ banner = "none"
  /\ AmortIdle
  /\ GridIdle
  /\ PmtIdle
  /\ AdvisorIdle
  /\ AxesIdle
  /\ StorageIdle

CalculateSummary ==
  /\ pc = "inputs"
  /\ summary' = calculateSummary(inputs)
  /\ pc' = "summary"
  /\ UNCHANGED <<inputs, banner, amortVars, gridVars, pmtVars, bankLoan, analysis, axes, storageVars>>

RenderSummaryCards ==
  /\ pc = "summary"
  /\ banner' = SummaryCards(summary)
  /\ pc' = "cards"
  /\ UNCHANGED <<inputs, summary, amortVars, gridVars, pmtVars, bankLoan, analysis, axes, storageVars>>

NextSummary == CalculateSummary \/ RenderSummaryCards

SpecSummary == InitSummary /\ [][NextSummary]_vars

----------------------------------------------------------------------------
(* The input form: App holds the inputs, InputsForm edits one field at a time
   and App keeps the record.  What App derives from the inputs on render (the
   summary, the schedules, the grid) is the subject of the other
   specifications. *)

\* what the user typed in a number field: text that Number() reads as a finite
\* number, or text it reads as NaN
FormTexts ==
  {[finite |-> TRUE,  parsed |-> FromInt(800000)],
   [finite |-> TRUE,  parsed |-> FromInt(-5)],
   [finite |-> FALSE, parsed |-> Zero]}

\* the cost and source fields of the form
FormKeys ==
  {"purchasePrice", "registrationRatePct", "notaryFees", "renovationBudget",
   "contingencyPct", "ownCash", "cryptoNet", "familyLoanAmount"}

toNumber(v, d) == IF v.finite THEN v.parsed ELSE d

handleUpdate(prev, key, value) == [prev EXCEPT ![key] = value]

InitApp ==
  /\ pc = "form"
  /\ SummaryIdle
  /\ AmortIdle
  /\ GridIdle
  /\ PmtIdle
  /\ AdvisorIdle
  /\ AxesIdle
  /\ StorageIdle

HandleNumberInput ==
  /\ pc = "form"
  /\ \E key \in FormKeys, value \in FormTexts :
       inputs' = handleUpdate(inputs, key, FMax(Zero, toNumber(value, Zero)))
  /\ UNCHANGED <<pc, summary, banner, amortVars, gridVars, pmtVars, bankLoan, analysis, axes, storageVars>>

HandleReset ==
  /\ pc = "form"
  /\ \E confirmed \in BOOLEAN :
       inputs' = IF confirmed THEN DEFAULT_INPUTS ELSE inputs
  /\ UNCHANGED <<pc, summary, banner, amortVars, gridVars, pmtVars, bankLoan, analysis, axes, storageVars>>

NextApp == HandleNumberInput \/ HandleReset

SpecApp == InitApp /\ [][NextApp]_vars

----------------------------------------------------------------------------
(* The sensitivity grid: Sensitivity generates the grid of its config for the
   current inputs *)

\* <<min, max, step>> of the amount loop
AmountAxes ==
  {<<FromInt(600000), FromInt(650000), FromInt(25000)>>,
   <<FromInt(600000), FromInt(600000), FromInt(25000)>>,
   <<FromInt(600000), FromInt(640000), FromInt(25000)>>,
   <<Zero,            FromInt(25000),  FromInt(25000)>>,
   <<Dec(5, 10),      Dec(17, 10),     Dec(6, 10)>>,
   <<FromInt(650000), FromInt(600000), FromInt(25000)>>,
   <<FromInt(600000), FromInt(650000), Zero>>,
   <<FromInt(600000), FromInt(650000), FromInt(-25000)>>}

\* <<min, max, step>> of the rate loop
RateAxes ==
  {<<FromInt(3),  Dec(35, 10), Dec(25, 100)>>,
   <<FromInt(3),  FromInt(3),  Dec(25, 100)>>,
   <<Zero,        Dec(5, 10),  Dec(25, 100)>>,
   <<FromInt(2),  Dec(34, 10), Dec(7, 10)>>,
   <<FromInt(1),  Dec(13, 10), Dec(1, 10)>>,
   <<Dec(35, 10), FromInt(3),  Dec(25, 100)>>,
   <<FromInt(3),  Dec(35, 10), Zero>>,
   <<FromInt(3),  Dec(35, 10), Dec(-25, 100)>>}

SensitivityConfigs ==
  {[minAmount |-> a[1], maxAmount |-> a[2], stepAmount |-> a[3],
    minRate   |-> r[1], maxRate   |-> r[2], stepRate   |-> r[3]] :
     a \in AmountAxes, r \in RateAxes}

InitGrid ==
  /\ pc = "config"
  /\ config \in SensitivityConfigs
  /\ grid = NoGrid
  /\ inputs \in {[DEFAULT_INPUTS EXCEPT !.netIncomeMonthly = ni] :
                   ni \in {Zero, FromInt(10500), Dec(908168, 100)}}
  /\ summary = NoSummary
  /\ banner = "none"
  /\ AmortIdle
  /\ PmtIdle
  /\ AdvisorIdle
  /\ AxesIdle
  /\ StorageIdle

GenerateSensitivityGrid ==
  /\ pc = "config"
  /\ grid' = generateSensitivityGrid(
               config, inputs.bankTermYears,
               pmt(FDiv(inputs.familyLoanRatePct, Hundred),
                   inputs.familyLoanTermYears, inputs.familyLoanAmount),
               inputs.netIncomeMonthly)
  /\ pc' = "grid"
  /\ UNCHANGED <<config, summaryVars, amortVars, pmtVars, bankLoan, analysis, axes, storageVars>>

\* Sensitivity's useMemo of amounts and of rates, for the grid of this render
GetAmountsAndRates ==
  /\ pc = "grid"
  /\ grid.outcome = "returns"
  /\ axes' = [amounts |-> getAmounts(grid.grid), rates |-> getRates(grid.grid)]
  /\ pc' = "axes"
  /\ UNCHANGED <<config, grid, summaryVars, amortVars, pmtVars, bankLoan, analysis, storageVars>>

NextGrid == GenerateSensitivityGrid \/ GetAmountsAndRates

SpecGrid == InitGrid /\ [][NextGrid]_vars

----------------------------------------------------------------------------
(* The monthly payment: pmt is called for two sets of arguments of the same
   term that differ in the rate or in the principal at most *)

\* 2^(-49) and 2^(-40): rates so small that 1 + r / 12 keeps few bits of r
TinyRate == Mk(1, <<L26, 0>>, -101)

SmallRate == Mk(1, <<L26, 0>>, -92)

PmtRates ==
  {Dec(-1, 100), Zero, TinyRate, SmallRate, Dec(15, 1000), Dec(4, 100), Dec(45, 1000)}

PmtYears == {-1, 0, 1, 25}

PmtPrincipals ==
  {FromInt(-100), Zero, FromInt(1200), FromInt(100000), FromInt(100025),
   Dec(99300001, 100)}

PmtCalls == [rateAnnual : PmtRates, years : PmtYears, principal : PmtPrincipals]

InitPmt ==
  /\ pc = "pmt"
  /\ calls \in {<<a, b>> : a \in PmtCalls, b \in PmtCalls}
  /\ calls[1].years = calls[2].years
  /\ calls[1].rateAnnual = calls[2].rateAnnual \/ calls[1].principal = calls[2].principal
  /\ payments = <<>>
  /\ SummaryIdle
  /\ AmortIdle
  /\ GridIdle
  /\ AdvisorIdle
  /\ AxesIdle
  /\ StorageIdle

\* the next call
Pmt ==
  /\ pc = "pmt"
  /\ Len(payments) < Len(calls)
  /\ payments' = Append(payments,
                        pmt(calls[Len(payments) + 1].rateAnnual,
                            calls[Len(payments) + 1].years,
                            calls[Len(payments) + 1].principal))
  /\ UNCHANGED <<pc, calls, amortVars, summaryVars, gridVars, bankLoan, analysis, axes, storageVars>>

NextPmt == Pmt

SpecPmt == InitPmt /\ [][NextPmt]_vars

----------------------------------------------------------------------------
(* The Airbnb switch: the form's switch replaces useAirbnbIncome and App
   summarizes the inputs again *)

SwitchInputs ==
  {[DEFAULT_INPUTS EXCEPT !.netIncomeMonthly = ni, !.otherFixedCostsMonthly = oc,
                          !.useAirbnbIncome = ab, !.airbnbIncome = air] :
     ni  \in {Zero, FromInt(10500), FromInt(13000), FromInt(15000)},
     oc  \in {FromInt(1500), Dec(931709, 100)},
     ab  \in BOOLEAN,
     air \in {Zero, FromInt(800), Dec(123456, 100), Dec(800004, 1000)}}

InitSwitch ==
  /\ pc = "inputs"
  /\ inputs \in SwitchInputs
  /\ summary = NoSummary
  /\ banner = "none"
  /\ AmortIdle
  /\ GridIdle
  /\ PmtIdle
  /\ AdvisorIdle
  /\ AxesIdle
  /\ StorageIdle

HandleAirbnbSwitch ==
  /\ pc \in {"summary", "switched"}
  /\ inputs' = handleUpdate(inputs, "useAirbnbIncome", ~inputs.useAirbnbIncome)
  /\ summary' = calculateSummary(inputs')
  /\ pc' = "switched"
  /\ UNCHANGED <<banner, amortVars, gridVars, pmtVars, bankLoan, analysis, axes, storageVars>>

NextSwitch == CalculateSummary \/ HandleAirbnbSwitch

SpecSwitch == InitSwitch /\ [][NextSwitch]_vars

----------------------------------------------------------------------------
(* The automatic bank loan: calculateBankLoanAmount is called for a record *)

BankLoanInputs ==
  {[DEFAULT_INPUTS EXCEPT !.purchasePrice = pp, !.notaryFees = nf, !.ownCash = cash,
                          !.contingencyPct = cp, !.bankLoanAmount = bl] :
     pp   \in {Zero, FromInt(700000), FromInt(800000)},
     nf   \in {FromInt(5000), Dec(5000006, 1000)},
     cash \in {FromInt(30000), Dec(30000004, 1000), FromInt(2000000)},
     cp   \in {Twelve, FromInt(10), Dec(75, 10)},
     bl   \in {Zero, FromInt(993000)}}

InitBankLoan ==
  /\ pc = "inputs"
  /\ inputs \in BankLoanInputs
  /\ summary = NoSummary
  /\ banner = "none"
  /\ AmortIdle
  /\ GridIdle
  /\ PmtIdle
  /\ AdvisorIdle
  /\ AxesIdle
  /\ StorageIdle

CalculateBankLoanAmount ==
  /\ pc = "inputs"
  /\ bankLoan' = calculateBankLoanAmount(inputs)
  /\ pc' = "bankLoan"
  /\ UNCHANGED <<summaryVars, amortVars, gridVars, pmtVars, analysis, axes, storageVars>>

NextBankLoan == CalculateBankLoanAmount

SpecBankLoan == InitBankLoan /\ [][NextBankLoan]_vars

----------------------------------------------------------------------------
(* The advisor panel: the summary of the inputs, then its analysis *)

\* the inputs analysed: incomes from none to ample, the bank loan that covers
\* the default project and one that leaves a gap, fixed costs that leave the
\* Realistisch scenario 1000 a month or the summary between 1000 and 1500,
\* bank rates below 1% and below the Optimistisch scenario's floor of 0.5%
AdvisorInputs ==
  {[DEFAULT_INPUTS EXCEPT !.netIncomeMonthly = ni,
                          !.bankLoanAmount = bl,
                          !.otherFixedCostsMonthly = oc,
                          !.useAirbnbIncome = ua,
                          !.contingencyPct = cp,
                          !.bankRatePct = br] :
     ni \in {Zero, FromInt(6000), FromInt(12000), FromInt(15000)},
     bl \in {FromInt(993000), FromInt(900000)},
     oc \in {FromInt(1500), Dec(831709, 100), FromInt(7300)},
     ua \in BOOLEAN,
     cp \in {Twelve, FromInt(10)},
     br \in {FromInt(4), Dec(75, 100), Dec(25, 100)}}

InitAdvisor ==
  /\ pc = "inputs"
  /\ inputs \in AdvisorInputs
  /\ summary = NoSummary
  /\ banner = "none"
  /\ analysis = NoAnalysis
  /\ bankLoan = Zero
  /\ AmortIdle
  /\ GridIdle
  /\ PmtIdle
  /\ AxesIdle
  /\ StorageIdle

\* AdvisorPanel's useMemo, for the summary App passes in
AnalyzeFinancials ==
  /\ pc = "summary"
  /\ analysis' = analyzeFinancials(inputs, summary)
  /\ pc' = "analysis"
  /\ UNCHANGED <<summaryVars, amortVars, gridVars, pmtVars, bankLoan, axes, storageVars>>

NextAdvisor == CalculateSummary \/ AnalyzeFinancials

SpecAdvisor == InitAdvisor /\ [][NextAdvisor]_vars

----------------------------------------------------------------------------
(* The scenario manager: calls of lib/storage on one localStorage *)

\* how many calls are followed: each is made at a later date than the one
\* before
MaxNow == 2

\* the storage a call made at date finds
LocalStorage(date) ==
  [stored |-> stored, defaultId |-> defaultId, now |-> date,
   generated |-> generated, returned |-> ReturnsUndefined]

ScenarioNames == {"Test", ""}

\* the lists of names of up to three scenarios
InitialNames ==
  UNION {[1..n -> ScenarioNames] : n \in 0..3}

\* the storage after createScenario for each of the names
RECURSIVE CreatedAll(_, _)
CreatedAll(ls, names) ==
  IF names = <<>> THEN ls
  ELSE CreatedAll(createScenario(ls, Head(names), DEFAULT_INPUTS), Tail(names))

EmptyStorage ==
  [stored |-> <<>>, defaultId |-> Null, now |-> 0, generated |-> 0,
   returned |-> ReturnsUndefined]

\* the ids a call is made for: those of the list, and one of no scenario
ScenarioIds == {stored[k].id : k \in 1..Len(stored)} \cup {"fake-id"}

ScenarioUpdates ==
  {[name |-> "Updated"],
   [inputs |-> [DEFAULT_INPUTS EXCEPT !.purchasePrice = FromInt(800000)]]}

\* a scenario of a file to import, with the fields it has
Imported(name) ==
  [id |-> "scenario-1", name |-> name, inputs |-> DEFAULT_INPUTS,
   createdAt |-> 0, updatedAt |-> 0]

WithoutField(scenario, field) ==
  [f \in DOMAIN scenario \ {field} |-> scenario[f]]

\* the texts imported: no JSON, an object, and arrays of scenarios that are
\* valid or lack a field
ImportTexts ==
  {[json |-> "syntax error", items |-> <<>>],
   [json |-> "object", items |-> <<>>],
   JsonArray(<<>>),
   JsonArray(<<Imported("New")>>),
   JsonArray(<<Imported("New"), Imported("Other")>>),
   JsonArray(<<WithoutField(Imported("New"), "id")>>),
   JsonArray(<<Imported("New"), WithoutField(Imported("Other"), "name")>>),
   JsonArray(<<Imported("New"), WithoutField(Imported("Other"), "inputs")>>)}

\* the call leaves the storage ls, and is recorded with what it returned
Call(name, args, ls) ==
  /\ stored' = ls.stored
  /\ defaultId' = ls.defaultId
  /\ now' = ls.now
  /\ generated' = ls.generated
  /\ returned' = [call |-> name, args |-> args, result |-> ls.returned]
  /\ UNCHANGED <<pc, amortVars, summaryVars, gridVars, pmtVars, bankLoan,
                 analysis, axes>>

\* a storage the tests' createScenario calls and the star of the list leave
InitStorage ==
  /\ pc = "storage"
  /\ \E names \in InitialNames :
       /\ stored = CreatedAll(EmptyStorage, names).stored
       /\ generated = CreatedAll(EmptyStorage, names).generated
  /\ defaultId \in {Null} \cup {stored[k].id : k \in 1..Len(stored)}
  /\ now = 0
  /\ returned = NoCall
  /\ SummaryIdle
  /\ AmortIdle
  /\ GridIdle
  /\ PmtIdle
  /\ AdvisorIdle
  /\ AxesIdle

\* handleCreateNew, and the tests' createScenario
CreateScenario ==
  /\ pc = "storage"
  /\ now < MaxNow
  /\ \E name \in ScenarioNames :
       Call("createScenario", [name |-> name],
            createScenario(LocalStorage(now + 1), name, DEFAULT_INPUTS))

UpdateScenario ==
  /\ pc = "storage"
  /\ now < MaxNow
  /\ \E id \in ScenarioIds, updates \in ScenarioUpdates :
       Call("updateScenario", [id |-> id, updates |-> updates],
            updateScenario(LocalStorage(now + 1), id, updates))

DeleteScenario ==
  /\ pc = "storage"
  /\ now < MaxNow
  /\ \E id \in ScenarioIds :
       Call("deleteScenario", [id |-> id],
            deleteScenario(LocalStorage(now + 1), id))

DuplicateScenario ==
  /\ pc = "storage"
  /\ now < MaxNow
  /\ \E id \in ScenarioIds :
       Call("duplicateScenario", [id |-> id],
            duplicateScenario(LocalStorage(now + 1), id))

\* handleSetDefault: the star of a scenario of the list
SetDefaultScenario ==
  /\ pc = "storage"
  /\ now < MaxNow
  /\ \E k \in 1..Len(stored) :
       Call("setDefaultScenario", [id |-> stored[k].id],
            setDefaultScenario(LocalStorage(now + 1), stored[k].id))

ImportScenarios ==
  /\ pc = "storage"
  /\ now < MaxNow
  /\ \E json \in ImportTexts, merge \in BOOLEAN :
       Call("importScenarios", [json |-> json, merge |-> merge],
            importScenarios(LocalStorage(now + 1), json, merge))

\* json = exportScenarios(); clearAllScenarios(); importScenarios(json, false)
ExportClearImport ==
  /\ pc = "storage"
  /\ now < MaxNow
  /\ Call("exportScenarios, clearAllScenarios, importScenarios",
          [json |-> exportScenarios(LocalStorage(now + 1)), merge |-> FALSE],
          importScenarios(clearAllScenarios(LocalStorage(now + 1)),
                          exportScenarios(LocalStorage(now + 1)), FALSE))

ClearAllScenarios ==
  /\ pc = "storage"
  /\ now < MaxNow
  /\ Call("clearAllScenarios", <<>>, clearAllScenarios(LocalStorage(now + 1)))

InitializeDefaultScenario ==
  /\ pc = "storage"
  /\ now < MaxNow
  /\ Call("initializeDefaultScenario", <<>>,
          initializeDefaultScenario(LocalStorage(now + 1)))

NextStorage ==
  \/ CreateScenario
  \/ UpdateScenario
  \/ DeleteScenario
  \/ DuplicateScenario
  \/ SetDefaultScenario
  \/ ImportScenarios
  \/ ExportClearImport
  \/ ClearAllScenarios
  \/ InitializeDefaultScenario

SpecStorage == InitStorage /\ [][NextStorage]_vars

----------------------------------------------------------------------------
(* Claims about the schedule *)

FAbs(a) == IF a.s = -1 THEN FNeg(a) ELSE a

Built == pc # "args"

PositiveLoan == IsPos(loan.amount) /\ IsPos(loan.ratePct) /\ loan.years > 0

\* C1: for principal > 0, rate > 0 and whole years > 0 the schedule has exactly
\* years*12 rows, numbered 1, 2, ... in order, and the balance of the last row
\* is exactly 0
C1_RowsNumberedAndPaidOff ==
  Built /\ PositiveLoan =>
    /\ Len(rows) = loan.years * 12
    /\ \A i \in 1..Len(rows) : rows[i].month = i
    /\ rows[Len(rows)].balance = Zero

\* C7: for principal > 0, rate > 0 and years > 0 every row, the last included,
\* has payment = interest + principal, up to one cent for the rounding of the
\* three fields to 2 decimals
C7_PaymentIsInterestPlusPrincipal ==
  Built /\ PositiveLoan =>
    \A i \in 1..Len(rows) :
      FLt(FAbs(FSub(FSub(rows[i].payment, rows[i].interest), rows[i].principal)),
          Dec(15, 1000))

\* C8: for principal > 0, rate > 0 and years > 0, from each row to the next, up
\* to the last, the balance never increases and is never negative, the interest
\* never increases and the principal portion never decreases
C8_Monotone ==
  Built /\ PositiveLoan =>
    /\ \A i \in 1..Len(rows) : FLe(Zero, rows[i].balance)
    /\ \A i \in 1..(Len(rows) - 1) :
         /\ FLe(rows[i + 1].balance, rows[i].balance)
         /\ FLe(rows[i + 1].interest, rows[i].interest)
         /\ FLe(rows[i].principal, rows[i + 1].principal)

\* C9: for principal > 0, rate > 0 and years > 0 the total of the principal
\* fields of the rows, as getAmortTotals returns it, is the original principal
\* up to half a cent for each rounded row and for the rounded total
C9_PrincipalRepaid ==
  pc = "totals" /\ PositiveLoan =>
    FLe(FAbs(FSub(totals.totalPrincipal, loan.amount)),
        FMul(Dec(5, 1000), FromInt(Len(rows) + 1)))

\* C10: the schedule is empty whenever the principal is 0 or the term is 0
\* years, a principal of 0 with a term above 0 included
C10_EmptyForNoLoan ==
  Built /\ (loan.amount = Zero \/ loan.years = 0) => rows = <<>>

\* C10, as the code has it: the schedule always has years*12 rows, so it is
\* empty exactly when the term is 0 years; a principal of 0 with a term above 0
\* gives years*12 rows whose payment, interest, principal and balance are all 0
C10_EmptyOnlyForNoTerm ==
  Built =>
    /\ Len(rows) = loan.years * 12
    /\ (rows = <<>>) <=> (loan.years = 0)
    /\ loan.amount = Zero =>
         \A i \in 1..Len(rows) :
           rows[i] = [month |-> i, payment |-> Zero, interest |-> Zero,
                      principal |-> Zero, balance |-> Zero]

\* C10: a schedule has been built for a principal of 0 over a term above 0
C10_ZeroLoanBuilt ==
  Built /\ loan.amount = Zero /\ loan.years > 0 /\ Len(rows) = loan.years * 12

----------------------------------------------------------------------------
(* Claims about the summary and its banner *)

\* a 2-decimal amount in whole cents
Cents(x) == MathRound(FMul(x, Hundred))

\* C2: the fundingGap of the returned summary is its totalProject minus its
\* totalSources exactly, taken on the returned 2-decimal fields
C2_GapIsProjectMinusSources ==
  pc # "inputs" =>
    Cents(summary.fundingGap) =
      FSub(Cents(summary.totalProject), Cents(summary.totalSources))

\* the classification the specification gives a summary
AffordabilityRule(sm) ==
  IF FLt(Zero, sm.fundingGap) \/ FLt(FromInt(55), sm.dtiPct) \/ FLt(sm.netAfter, Zero)
  THEN "hasIssues"
  ELSE IF FLe(sm.fundingGap, Zero) /\ FLe(sm.dtiPct, FromInt(45)) /\ FLt(Zero, sm.netAfter)
  THEN "looksGood"
  ELSE "needsAttention"

\* C3: the banner shown for a summary is exactly one of bad (hasIssues), warn
\* (needsAttention), good (looksGood) and is the one the rule gives: bad if
\* fundingGap > 0 or dtiPct > 55 or netAfter < 0, otherwise good if and only if
\* fundingGap <= 0 and dtiPct <= 45 and netAfter > 0, otherwise warn; a summary
\* with netAfter = 0 is never shown as good
C3_BannerFollowsRule ==
  pc = "cards" =>
    /\ banner \in {"hasIssues", "needsAttention", "looksGood"}
    /\ banner = AffordabilityRule(summary)
    /\ summary.netAfter = Zero => banner # "looksGood"

----------------------------------------------------------------------------
(* Claims about the input form *)

\* C4: from the default inputs, after any sequence of edits of the cost and
\* source fields through the form, the bankLoanAmount of the inputs is
\* calculateBankLoanAmount of the inputs
C4_BankLoanFollowsInputs ==
  pc = "form" => inputs.bankLoanAmount = calculateBankLoanAmount(inputs)

----------------------------------------------------------------------------
(* Claims about the sensitivity grid *)

Generated == pc = "grid"

WellFormed(c) ==
  /\ FLe(c.minAmount, c.maxAmount)
  /\ FLe(c.minRate, c.maxRate)
  /\ FLt(Zero, c.stepAmount)
  /\ FLt(Zero, c.stepRate)

\* Math.floor of a number >= 0
MathFloor(a) ==
  IF a.s = 0 \/ a.e >= 0 THEN a
  ELSE Round(1, <<WShr(Sig(a), -a.e)[1], WShr(Sig(a), -a.e)[2]>>, 0, FALSE)

\* (max - min) / step, as the program's arithmetic evaluates it
StepsBetween(min, max, step) == FDiv(FSub(max, min), step)

\* the number of values min, min + step, ... up to max
AxisLength(min, max, step) == FAdd(MathFloor(StepsBetween(min, max, step)), One)

WholeSteps(min, max, step) ==
  MathFloor(StepsBetween(min, max, step)) = StepsBetween(min, max, step)

\* C5: for a config with minAmount <= maxAmount, minRate <= maxRate and both
\* steps > 0 the grid has floor((maxAmount - minAmount) / stepAmount) + 1 rows
\* and every row floor((maxRate - minRate) / stepRate) + 1 cells, and a maximum
\* that lies a whole number of steps above the minimum is the amount of exactly
\* one row and the rate of exactly one cell of every row
C5_GridDimensions ==
  Generated /\ WellFormed(config) =>
    /\ grid.outcome = "returns"
    /\ FromInt(Len(grid.grid))
         = AxisLength(config.minAmount, config.maxAmount, config.stepAmount)
    /\ \A i \in 1..Len(grid.grid) :
         FromInt(Len(grid.grid[i]))
           = AxisLength(config.minRate, config.maxRate, config.stepRate)
    /\ WholeSteps(config.minAmount, config.maxAmount, config.stepAmount) =>
         Cardinality({i \in 1..Len(grid.grid) :
                        /\ grid.grid[i] # <<>>
                        /\ grid.grid[i][1].amount = config.maxAmount}) = 1
    /\ WholeSteps(config.minRate, config.maxRate, config.stepRate) =>
         \A i \in 1..Len(grid.grid) :
           Cardinality({j \in 1..Len(grid.grid[i]) :
                          grid.grid[i][j].rate = round2(config.maxRate)}) = 1

\* C6: for a config with minAmount > maxAmount, minRate > maxRate,
\* stepAmount <= 0 or stepRate <= 0 the call ends with a validation error: it
\* does not run forever and it returns no grid, so no empty grid and no grid
\* with an empty row
C6_MalformedConfigRejected ==
  Generated /\ ~WellFormed(config) =>
    /\ grid.outcome # "never returns"
    /\ grid.outcome # "returns"
    /\ grid.outcome = "validation error"

----------------------------------------------------------------------------
(* Claims about the monthly payment *)

\* C11: pmt returns 0 when the principal is <= 0 or the term is <= 0 years,
\* whatever the rate; otherwise, when the annual rate is <= 0, it returns
\* exactly principal / (years * 12)
C11_NoLoanOrNoInterest ==
  \A i \in 1..Len(payments) :
    IF FLe(calls[i].principal, Zero) \/ calls[i].years <= 0
      THEN payments[i] = Zero
      ELSE FLe(calls[i].rateAnnual, Zero) =>
             payments[i] = FDiv(calls[i].principal, FromInt(calls[i].years * 12))

\* C11 happens: 1200 over 1 year at rate 0 was paid in instalments of 100, and
\* a call without principal or without term returned 0
C11_StraightLinePaid ==
  /\ Len(payments) = 2
  /\ calls[1].rateAnnual = Zero /\ calls[1].years = 1
  /\ calls[1].principal = FromInt(1200) /\ payments[1] = FromInt(100)
  /\ FLt(calls[2].rateAnnual, Zero) /\ IsPos(calls[2].principal)
  /\ payments[2] = FromInt(100)

\* C12: for a term > 0, of two calls with the same rate >= 0 the one with the
\* larger principal (both > 0) returns the strictly larger payment, and of two
\* calls with the same principal > 0 the one with the larger rate (both >= 0)
\* returns the strictly larger payment
C12_StrictlyMonotone ==
  Len(payments) = 2 /\ calls[1].years > 0 =>
    /\ ( /\ FLe(Zero, calls[1].rateAnnual)
         /\ calls[1].rateAnnual = calls[2].rateAnnual
         /\ IsPos(calls[1].principal)
         /\ FLt(calls[1].principal, calls[2].principal) )
       => FLt(payments[1], payments[2])
    /\ ( /\ IsPos(calls[1].principal)
         /\ calls[1].principal = calls[2].principal
         /\ FLe(Zero, calls[1].rateAnnual)
         /\ FLt(calls[1].rateAnnual, calls[2].rateAnnual) )
       => FLt(payments[1], payments[2])

----------------------------------------------------------------------------
(* Claims about the Airbnb switch *)

\* the summary of the record with the switch on, and with the switch off
SwitchedOn(before, after) == IF inputs.useAirbnbIncome THEN before ELSE after

SwitchedOff(before, after) == IF inputs.useAirbnbIncome THEN after ELSE before

\* the step of the switch, from one summary to the next
Switched == pc \in {"summary", "switched"} /\ pc' = "switched"

\* netAfter with the switch on minus netAfter with the switch off, in cents
AirbnbCents(before, after) ==
  FSub(Cents(SwitchedOn(before, after).netAfter),
       Cents(SwitchedOff(before, after).netAfter))

----------------------------------------------------------------------------
(* Claims about the automatic bank loan *)

\* totalProject - (ownCash + cryptoNet + familyLoanAmount), not below 0
UnroundedBankLoan(i) ==
  FMax(Zero, FSub(TotalProjectOf(i).totalProject,
                  FAdd(FAdd(i.ownCash, i.cryptoNet), i.familyLoanAmount)))

\* C14: calculateBankLoanAmount returns max(0, totalProject - (ownCash +
\* cryptoNet + familyLoanAmount)), so never a negative number, and the same
\* whatever the bankLoanAmount of the record is
C14_BankLoanIsTheShortfall ==
  pc = "bankLoan" =>
    /\ bankLoan = UnroundedBankLoan(inputs)
    /\ FLe(Zero, bankLoan)
    /\ bankLoan = calculateBankLoanAmount([inputs EXCEPT !.bankLoanAmount = Zero])

\* C14, amended: the result is that amount rounded to 2 decimals: a whole
\* number of cents within half a cent of it, never negative, and the same
\* whatever the bankLoanAmount of the record is
C14_BankLoanIsTheRoundedShortfall ==
  pc = "bankLoan" =>
    /\ round2(bankLoan) = bankLoan
    /\ FLe(FAbs(FSub(bankLoan, UnroundedBankLoan(inputs))), Dec(50001, 10000000))
    /\ FLe(Zero, bankLoan)
    /\ bankLoan = calculateBankLoanAmount([inputs EXCEPT !.bankLoanAmount = Zero])

\* C14 happens: own cash above the project's cost, with a bank loan in the
\* record, gave a loan of 0
C14_DeficitAbsorbed ==
  /\ pc = "bankLoan"
  /\ inputs.ownCash = FromInt(2000000)
  /\ IsPos(inputs.bankLoanAmount)
  /\ bankLoan = Zero

----------------------------------------------------------------------------
(* Claims about the comfort flag of the sensitivity grid *)

\* the family loan's monthly payment the Sensitivity component passes in
GridFamilyMonthly(i) ==
  pmt(FDiv(i.familyLoanRatePct, Hundred), i.familyLoanTermYears,
      i.familyLoanAmount)

\* (cell.monthly + familyMonthly) / netIncomeMonthly * 100 <= 45, from the
\* monthly payment the cell reports
ComfortableAsReported(cell, i) ==
  /\ FLt(Zero, i.netIncomeMonthly)
  /\ FLe(FMul(FDiv(FAdd(cell.monthly, GridFamilyMonthly(i)), i.netIncomeMonthly),
              Hundred),
         FromInt(45))

\* C15: a cell of the grid is comfortable exactly when the net income is
\* positive and the cell's reported monthly payment plus the family payment is
\* at most 45% of it; with no net income no cell is comfortable
C15_ComfortFollowsReportedMonthly ==
  (Generated /\ grid.outcome = "returns") =>
    \A r \in 1..Len(grid.grid) : \A c \in 1..Len(grid.grid[r]) :
      grid.grid[r][c].isComfortable <=> ComfortableAsReported(grid.grid[r][c], inputs)

----------------------------------------------------------------------------
(* Claims about the advisor's scenarios *)

Analysed == pc = "analysis"

\* the bank rate of scenario k: max(0.5, bankRatePct - 0.5), bankRatePct,
\* bankRatePct + 0.5
ShockedRate(k, i) ==
  CASE k = 1 -> FMax(Dec(5, 10), FSub(i.bankRatePct, Dec(5, 10)))
    [] k = 2 -> i.bankRatePct
    [] k = 3 -> FAdd(i.bankRatePct, Dec(5, 10))

\* the income of scenario k: netIncomeMonthly x 1.10, x 1, x 0.90
ShockedIncome(k, i) ==
  CASE k = 1 -> FMul(i.netIncomeMonthly, Dec(11, 10))
    [] k = 2 -> i.netIncomeMonthly
    [] k = 3 -> FMul(i.netIncomeMonthly, Dec(9, 10))

\* the debt of scenario k: the payment at its rate plus the family payment
ShockedDebt(k, i, familyMonthly) ==
  FAdd(pmt(FDiv(ShockedRate(k, i), Hundred), i.bankTermYears, i.bankLoanAmount),
       familyMonthly)

\* totalDebt / shocked income x 100, and 100 when the income is not positive
ShockedDti(k, i, familyMonthly) ==
  IF FLt(Zero, ShockedIncome(k, i))
    THEN FMul(FDiv(ShockedDebt(k, i, familyMonthly), ShockedIncome(k, i)), Hundred)
    ELSE Hundred

\* what scenario k leaves a month
ShockedNet(k, i, familyMonthly) ==
  FSub(FAdd(FSub(ShockedIncome(k, i), i.otherFixedCostsMonthly),
            IF i.useAirbnbIncome THEN i.airbnbIncome ELSE Zero),
       ShockedDebt(k, i, familyMonthly))

RiskTier(dtiPct, monthlyNet) ==
  IF FLe(dtiPct, FromInt(45)) /\ FLt(FromInt(1000), monthlyNet) THEN "Laag"
  ELSE IF FLe(dtiPct, FromInt(55)) /\ FLt(Zero, monthlyNet) THEN "Gemiddeld"
  ELSE "Hoog"

\* C17: a scenario's risk tier follows from the dtiPct and the monthlyNet it
\* reports (Low if dtiPct <= 45 and monthlyNet > 1000, else Medium if
\* dtiPct <= 55 and monthlyNet > 0, else High), its dtiPct being totalDebt /
\* shocked income x 100, and 100 when the shocked income is not positive
C17_TierFollowsReportedFigures ==
  Analysed =>
    \A k \in 1..Len(analysis.scenarios) :
      /\ analysis.scenarios[k].risk
           = RiskTier(analysis.scenarios[k].dtiPct, analysis.scenarios[k].monthlyNet)
      /\ analysis.scenarios[k].dtiPct
           = round2(ShockedDti(k, inputs, summary.familyMonthly))

----------------------------------------------------------------------------
(* Claims about the advisor's overall risk *)

\* C18: the overall risk is High (red) whenever the summary has a funding
\* gap, whatever the tier of the Realistisch scenario; without a gap it is
\* that scenario's tier: High red, Medium yellow, Low green
C18_OverallRisk ==
  Analysed =>
    IF FLt(Zero, summary.fundingGap)
      THEN /\ analysis.riskColor = "red"
           /\ analysis.riskLevel = "Hoog risico - Tekort in financiering"
      ELSE /\ analysis.riskColor
                = (CASE analysis.scenarios[2].risk = "Hoog" -> "red"
                     [] analysis.scenarios[2].risk = "Gemiddeld" -> "yellow"
                     [] analysis.scenarios[2].risk = "Laag" -> "green")
           /\ analysis.riskLevel
                = (CASE analysis.scenarios[2].risk = "Hoog"
                          -> "Hoog risico - DTI te hoog en/of onvoldoende buffer"
                     [] analysis.scenarios[2].risk = "Gemiddeld"
                          -> "Gemiddeld risico - Haalbaar mits stabiel inkomen en buffer"
                     [] analysis.scenarios[2].risk = "Laag"
                          -> "Laag risico - Financieel gezond en haalbaar")

\* C18 happens: a funding gap of 93000 with a Realistisch scenario of low risk
\* was analysed as red
C18_GapOverridesLowTier ==
  /\ Analysed
  /\ summary.fundingGap = FromInt(93000)
  /\ analysis.scenarios[2].name = "Realistisch"
  /\ analysis.scenarios[2].risk = "Laag"
  /\ analysis.riskColor = "red"

----------------------------------------------------------------------------
(* Claims about the advisor's recommendations *)

Positive == "Het plan ziet er financieel solide uit"

\* the place of a recommendation in the order of priority
Priority(text) ==
  CASE text = "Vul het tekort aan" -> 1
    [] text \in {"DTI is te hoog", "DTI is aan de hoge kant"} -> 2
    [] text = "Behoud een buffer" -> 3
    [] text = "Bij rentestijging loopt DTI op" -> 4
    [] text = "Je plan rekent op Airbnb-inkomen" -> 5
    [] text = "Verhoog contingency" -> 6
    [] text = Positive -> 7

\* the trigger of priority k fires: funding gap, DTI above 45, net buffer
\* below 1000, Conservatief DTI above 60, Airbnb income above 500,
\* contingency below 12%
Triggered(k, i, s, scenarios) ==
  CASE k = 1 -> FLt(Zero, s.fundingGap)
    [] k = 2 -> FLt(FromInt(45), s.dtiPct)
    [] k = 3 -> FLt(s.netAfter, FromInt(1000))
    [] k = 4 -> FLt(FromInt(60), scenarios[3].dtiPct)
    [] k = 5 -> i.useAirbnbIncome /\ FLt(FromInt(500), i.airbnbIncome)
    [] k = 6 -> FLt(i.contingencyPct, Twelve)

\* the priorities of the triggers that fired, in order
Fired(i, s, scenarios) ==
  SelectSeq(<<1, 2, 3, 4, 5, 6>>, LAMBDA k : Triggered(k, i, s, scenarios))

\* recommendations are in order of priority, and are the first five at most of
\* the triggers fired, then possibly the affirmation
InPriorityOrder(recommendations, fired) ==
  /\ Len(recommendations) <= 5
  /\ \A a, b \in 1..Len(recommendations) :
       a < b => Priority(recommendations[a]) < Priority(recommendations[b])
  /\ \A a \in 1..Len(recommendations) :
       Priority(recommendations[a]) <= 6 =>
         a <= Len(fired) /\ Priority(recommendations[a]) = fired[a]
  /\ \A a \in 1..Len(fired) :
       a <= 5 => a <= Len(recommendations)
                 /\ Priority(recommendations[a]) = fired[a]

\* C19: the recommendations are never more than 5 and appear in the order of
\* priority: funding gap, DTI above 45/55 (one entry at most), net buffer below
\* 1000, Conservatief DTI above 60, Airbnb income above 500, contingency below
\* 12%, affirmation; when more than 5 triggers fire, those of the lowest
\* priority are dropped
C19_FiveInPriorityOrder ==
  Analysed =>
    InPriorityOrder(analysis.recommendations,
                    Fired(inputs, summary, analysis.scenarios))

\* C19 happens: all six triggers fired and the contingency entry was dropped
C19_SixthDropped ==
  /\ Analysed
  /\ Len(Fired(inputs, summary, analysis.scenarios)) = 6
  /\ analysis.recommendations
       = <<"Vul het tekort aan", "DTI is te hoog", "Behoud een buffer",
           "Bij rentestijging loopt DTI op", "Je plan rekent op Airbnb-inkomen">>

\* the affirmation is among the recommendations
Affirmed(recommendations) ==
  \E a \in 1..Len(recommendations) : recommendations[a] = Positive

----------------------------------------------------------------------------
(* Claims about the stored scenarios *)

\* some scenario of the list has the id
IsStored(scenarios, id) == \E k \in 1..Len(scenarios) : scenarios[k].id = id

\* the list without its k-th scenario
Removed(scenarios, k) ==
  SubSeq(scenarios, 1, k - 1) \o SubSeq(scenarios, k + 1, Len(scenarios))

\* the step is a call of deleteScenario
Deleted == returned'.call = "deleteScenario"

\* C21: deleteScenario(id) for a stored id returns true and removes exactly
\* that scenario, the others unchanged and in the same order, and clears the
\* default id if and only if it was id; for an id that is not stored it returns
\* false and changes neither the list nor the default id
C21_DeleteRemovesThatScenario ==
  [][Deleted =>
       IF IsStored(stored, returned'.args.id)
         THEN /\ returned'.result = ReturnsValue(TRUE)
              /\ \E k \in 1..Len(stored) :
                   /\ stored[k].id = returned'.args.id
                   /\ stored' = Removed(stored, k)
              /\ defaultId' = IF defaultId = returned'.args.id THEN Null
                              ELSE defaultId
         ELSE /\ returned'.result = ReturnsValue(FALSE)
              /\ stored' = stored
              /\ defaultId' = defaultId]_vars

\* C21 happens: the second of three scenarios was deleted, the first and the
\* third are left in that order, and no default id is set
C21_SecondOfThreeDeleted ==
  /\ returned.call = "deleteScenario"
  /\ returned.args.id = generateId(2)
  /\ returned.result = ReturnsValue(TRUE)
  /\ [k \in 1..Len(stored) |-> stored[k].id] = <<generateId(1), generateId(3)>>
  /\ defaultId = Null

\* the step is a call of updateScenario
WasUpdated == returned'.call = "updateScenario"

\* the scenario is the one before with the updates applied and a new
\* updatedAt; its id and its createdAt are the ones before
UpdatedFrom(before, after, updates, date) ==
  /\ DOMAIN after = DOMAIN before
  /\ after.id = before.id
  /\ after.createdAt = before.createdAt
  /\ after.updatedAt = date
  /\ \A f \in DOMAIN before \ {"id", "createdAt", "updatedAt"} :
       after[f] = IF f \in DOMAIN updates THEN updates[f] ELSE before[f]

\* C22: updateScenario(id, updates) for a stored id applies the updates to that
\* scenario only and sets its updatedAt to the date of the call; its id, its
\* createdAt, its place in the list and every other scenario are as before;
\* for an id that is not stored it returns null and leaves the list unchanged
C22_UpdateChangesThatScenarioOnly ==
  [][WasUpdated =>
       IF IsStored(stored, returned'.args.id)
         THEN /\ Len(stored') = Len(stored)
              /\ \A k \in 1..Len(stored) :
                   IF k = FindIndex(stored, returned'.args.id)
                     THEN UpdatedFrom(stored[k], stored'[k],
                                      returned'.args.updates, now')
                     ELSE stored'[k] = stored[k]
              /\ returned'.result.kind = "value"
         ELSE /\ returned'.result = ReturnsNull
              /\ stored' = stored]_vars

\* C22 happens: the second of three scenarios was renamed at a later date
\* than it was created
C22_SecondOfThreeRenamed ==
  /\ returned.call = "updateScenario"
  /\ returned.args.id = generateId(2)
  /\ Len(stored) = 3
  /\ stored[2].id = generateId(2)
  /\ stored[2].name = "Updated"
  /\ stored[2].createdAt = 0
  /\ stored[2].updatedAt = now
  /\ now > 0
  /\ stored[1].updatedAt = 0

----------------------------------------------------------------------------
(* Claims about export and import *)

\* the step is exportScenarios, clearAllScenarios and importScenarios of the
\* text exported, with merge false
RoundTripped ==
  returned'.call = "exportScenarios, clearAllScenarios, importScenarios"

\* the names and the inputs of the scenarios, in order
NamesAndInputs(scenarios) ==
  [k \in 1..Len(scenarios) |->
     [name |-> scenarios[k].name, inputs |-> scenarios[k].inputs]]

\* C23: for a list that createScenario produced, json = exportScenarios(),
\* clearAllScenarios() and importScenarios(json, false) succeed, the import
\* returns the number of scenarios exported, and the list has as many
\* scenarios as before, with the same names and inputs in the same order
C23_RoundTripRestoresList ==
  [][RoundTripped =>
       /\ returned'.result = ReturnsValue(Len(stored))
       /\ NamesAndInputs(stored') = NamesAndInputs(stored)]_vars


\* the step is a call of importScenarios
Imports == returned'.call = "importScenarios"

\* the scenarios are the imported ones, each but for its id and its dates
AreImported(scenarios, imported) ==
  /\ Len(scenarios) = Len(imported)
  /\ \A k \in 1..Len(imported) :
       /\ DOMAIN scenarios[k] = DOMAIN imported[k] \cup {"createdAt", "updatedAt"}
       /\ \A f \in DOMAIN imported[k] \ {"id", "createdAt", "updatedAt"} :
            scenarios[k][f] = imported[k][f]

\* the ids of the scenarios are new: no two are the same and none is an id of
\* the list before
HaveNewIds(scenarios, before) ==
  /\ \A j, k \in 1..Len(scenarios) : j # k => scenarios[j].id # scenarios[k].id
  /\ \A k \in 1..Len(scenarios) : ~IsStored(before, scenarios[k].id)

\* C24: importScenarios(json, true) of k valid scenarios keeps every stored
\* scenario unchanged and in place, appends the k imported ones after them,
\* each under a newly generated id, and returns k; with merge false the list
\* is then exactly the k imported scenarios
C24_ImportAppendsOrReplaces ==
  [][(Imports /\ ~ImportThrows(returned'.args.json)) =>
       /\ returned'.result = ReturnsValue(Len(returned'.args.json.items))
       /\ Len(stored') = (IF returned'.args.merge THEN Len(stored) ELSE 0)
                         + Len(returned'.args.json.items)
       /\ returned'.args.merge =>
            SubSeq(stored', 1, Len(stored)) = stored
       /\ AreImported(SubSeq(stored',
                             Len(stored') - Len(returned'.args.json.items) + 1,
                             Len(stored')),
                      returned'.args.json.items)
       /\ HaveNewIds(SubSeq(stored',
                            Len(stored') - Len(returned'.args.json.items) + 1,
                            Len(stored')),
                     stored)]_vars

\* C24 happens: two scenarios were imported after the one stored
C24_TwoMergedAfterOne ==
  /\ returned.call = "importScenarios"
  /\ returned.args.merge
  /\ returned.result = ReturnsValue(2)
  /\ Len(stored) = 3
  /\ stored[1].id = generateId(1)
  /\ stored[1].name = "Test"
  /\ stored[2].name = "New"
  /\ stored[3].name = "Other"
  /\ stored[2].id = generateId(2)


\* C26: after any calls of createScenario, updateScenario, deleteScenario,
\* duplicateScenario, setDefaultScenario for a stored id, importScenarios,
\* clearAllScenarios and initializeDefaultScenario, the default id is not set
\* or is the id of a stored scenario: getDefaultScenario does not give null
\* for a default id that is set
C26_DefaultIsStored ==
  pc = "storage" =>
    /\ defaultId = Null \/ IsStored(stored, defaultId)
    /\ defaultId # Null =>
         getDefaultScenario(LocalStorage(now)) # ReturnsNull

\* C27: importScenarios of a text that is no JSON, is no array or has a
\* scenario without id, name or inputs throws, and leaves the list and the
\* default id as they were, with merge true and with merge false
C27_RejectedImportChangesNothing ==
  [][(Imports /\ ImportThrows(returned'.args.json)) =>
       /\ returned'.result.kind = "throws"
       /\ stored' = stored
       /\ defaultId' = defaultId]_vars

\* C27 happens: a file whose second scenario has no name was imported with
\* merge false, and the three stored scenarios and the default id are there
C27_NothingImported ==
  /\ returned.call = "importScenarios"
  /\ ~returned.args.merge
  /\ Len(returned.args.json.items) = 2
  /\ Lacks(returned.args.json.items[2], "name")
  /\ returned.result.kind = "throws"
  /\ Len(stored) = 3
  /\ defaultId = generateId(3)

----------------------------------------------------------------------------
(* Claims about the analysis as a whole *)

\* C25: the analysis carries between 3 and 5 recommendations, for every input
\* and summary; the list is never empty
C25_ThreeToFiveRecommendations ==
  Analysed => Len(analysis.recommendations) \in 3..5

\* the Realistisch scenario of the analysis
Realistisch == analysis.scenarios[2]

\* C29: the Realistisch scenario reports the figures of the summary:
\* bankMonthly, familyMonthly, totalDebt and dtiPct are the summary's, and
\* monthlyNet is the summary's netAfter, also for an income of 0
C29_RealistischIsTheSummary ==
  Analysed =>
    /\ Realistisch.name = "Realistisch"
    /\ Realistisch.bankMonthly = summary.bankMonthly
    /\ Realistisch.familyMonthly = summary.familyMonthly
    /\ Realistisch.totalDebt = summary.totalDebt
    /\ Realistisch.dtiPct = summary.dtiPct
    /\ Realistisch.monthlyNet = summary.netAfter

\* C30: for a bank rate that is not negative the scenarios are ordered by
\* severity: rate and bankMonthly of Optimistisch are at most those of
\* Realistisch, and those of Realistisch at most those of Conservatief
C30_OrderedBySeverity ==
  (Analysed /\ FLe(Zero, inputs.bankRatePct)) =>
    \A k \in 1..2 :
      /\ FLe(analysis.scenarios[k].rate, analysis.scenarios[k + 1].rate)
      /\ FLe(analysis.scenarios[k].bankMonthly,
             analysis.scenarios[k + 1].bankMonthly)

----------------------------------------------------------------------------
(* Claims about the axes of the grid *)

\* C28: for every grid that is returned, also from a config with
\* minRate > maxRate or minAmount > maxAmount, getAmounts and getRates return
\* without error, getAmounts one amount per row and getRates one rate per
\* column
C28_AxesOfEveryGrid ==
  pc = "axes" =>
    /\ axes.amounts.outcome = "returns"
    /\ axes.rates.outcome = "returns"
    /\ Len(axes.amounts.value) = Len(grid.grid)
    /\ \A k \in 1..Len(grid.grid) : Len(axes.rates.value) = Len(grid.grid[k])

====
